---- MODULE Spec2Model ----
(***************************************************************************)
(* Model of the fiat-ramp service: the Onramper webhook endpoint, the      *)
(* transaction-initiation endpoint, the status mapper and the GraphQL      *)
(* store client (ledger of fiat transactions, id-verification sessions).   *)
(*                                                                         *)
(* Go strings are sequences of one-character strings, so that ToLower,     *)
(* Contains, TrimSpace and hex encoding are computed and not assumed.      *)
(***************************************************************************)
EXTENDS Naturals, Integers, Sequences, FiniteSets, TLC

VARIABLES ledger, sessions, storeUp, WebhookSecret, last, inflight, delivery

vars == <<ledger, sessions, storeUp, WebhookSecret, last, inflight, delivery>>

(***************************************************************************)
(* Strings                                                                 *)
(***************************************************************************)
UpperChars ==
  <<"A","B","C","D","E","F","G","H","I","J","K","L","M",
    "N","O","P","Q","R","S","T","U","V","W","X","Y","Z">>

LowerChars ==
  <<"a","b","c","d","e","f","g","h","i","j","k","l","m",
    "n","o","p","q","r","s","t","u","v","w","x","y","z">>

ToLowerChar(c) ==
  IF \E i \in DOMAIN UpperChars : UpperChars[i] = c
  THEN LowerChars[CHOOSE i \in DOMAIN UpperChars : UpperChars[i] = c]
  ELSE c

ToUpperChar(c) ==
  IF \E i \in DOMAIN LowerChars : LowerChars[i] = c
  THEN UpperChars[CHOOSE i \in DOMAIN LowerChars : LowerChars[i] = c]
  ELSE c

\* strings.ToLower
ToLower(s) == [i \in 1..Len(s) |-> ToLowerChar(s[i])]

\* strings.ToUpper
ToUpper(s) == [i \in 1..Len(s) |-> ToUpperChar(s[i])]

\* strings.Contains
Contains(s, sub) ==
  \E i \in 0..(Len(s) - Len(sub)) : SubSeq(s, i + 1, i + Len(sub)) = sub

\* the empty Go string
Empty == << >>

sPending == <<"p","e","n","d","i","n","g">>
sInProgress == <<"i","n","_","p","r","o","g","r","e","s","s">>
sProcessing == <<"p","r","o","c","e","s","s","i","n","g">>
sCompleted == <<"c","o","m","p","l","e","t","e","d">>
sConfirmed == <<"c","o","n","f","i","r","m","e","d">>
sPaid == <<"p","a","i","d">>
sFailed == <<"f","a","i","l","e","d">>
sError == <<"e","r","r","o","r">>
sNew == <<"n","e","w">>
sCanceled == <<"c","a","n","c","e","l","e","d">>
sUnknown == <<"r","e","f","u","n","d">>

(***************************************************************************)
(* utils.MapTransactionStatus                                              *)
(***************************************************************************)
MapTransactionStatusRaw(input) == input

MapTransactionStatusFailedFirst(input) ==
  LET in == ToLower(input) IN
  IF Contains(in, sFailed) \/ Contains(in, sError)
  THEN sFailed
  ELSE IF \/ Contains(in, sPending)
          \/ Contains(in, sInProgress)
          \/ Contains(in, sProcessing)
  THEN sPending
  ELSE IF Contains(in, sCompleted) \/ Contains(in, sConfirmed)
  THEN sCompleted
  ELSE IF in = sPaid
  THEN sPaid
  ELSE sNew

MapTransactionStatusCaseSensitive(input) ==
  IF \/ Contains(input, sPending)
     \/ Contains(input, sInProgress)
     \/ Contains(input, sProcessing)
  THEN sPending
  ELSE IF Contains(input, sCompleted) \/ Contains(input, sConfirmed)
  THEN sCompleted
  ELSE IF input = sPaid
  THEN sPaid
  ELSE IF Contains(input, sFailed) \/ Contains(input, sError)
  THEN sFailed
  ELSE sNew

MapTransactionStatus(input) ==
  LET in == ToLower(input) IN
  IF \/ Contains(in, sPending)
     \/ Contains(in, sInProgress)
     \/ Contains(in, sProcessing)
  THEN sPending
  ELSE IF Contains(in, sCompleted) \/ Contains(in, sConfirmed)
  THEN sCompleted
  ELSE IF in = sPaid
  THEN sPaid
  ELSE IF Contains(in, sFailed) \/ Contains(in, sError)
  THEN sFailed
  ELSE sNew

\* the five canonical transaction states
CanonicalStates == {sPending, sCompleted, sPaid, sFailed, sNew}

(***************************************************************************)
(* Webhook request bodies.  A body is raw bytes; what the program does     *)
(* with it is hash it and hand it to json.Unmarshal.  The bodies of the    *)
(* model are a body that is not JSON and JSON objects given by their       *)
(* members; a member's value is a JSON string or a JSON number.            *)
(***************************************************************************)
JStr(s) == [t |-> "string", v |-> s]

JNum == [t |-> "number", v |-> Empty]

TX42 == <<"T","X","4","2">>
TX1 == <<"T","X","1">>
OTX1 == <<"O","1">>
WalletA == <<"0","x","A">>
WalletB == <<"0","x","B">>
UserA == <<"u","A">>
UserB == <<"u","B">>

\* models.WebhookPayload: the members the pipeline reads
PayloadFields ==
  {"transactionId", "onrampTransactionId", "status", "walletAddress",
   "transactionType"}

ZeroPayload == [f \in PayloadFields |-> Empty]

Garbage == [kind |-> "garbage", obj |-> << >>]

Json(obj) == [kind |-> "json", obj |-> obj]

BodyList ==
  << Garbage,
     Json([status |-> JStr(sCompleted), transactionId |-> JStr(TX42)]),
     Json([status |-> JStr(sFailed), transactionId |-> JStr(TX42),
           walletAddress |-> JStr(WalletA)]),
     Json([status |-> JStr(sPending), transactionId |-> JStr(TX1),
           onrampTransactionId |-> JStr(OTX1)]),
     Json([status |-> JStr(sCompleted)]),
     Json([transactionId |-> JStr(TX1)]),
     Json([status |-> JNum, transactionId |-> JStr(TX1)]),
     Json([status |-> JStr(sPaid), transactionId |-> JStr(TX1),
           unknownMember |-> JStr(sNew)]) >>

\* a request body is named by its place in BodyList
Bodies == DOMAIN BodyList

\* json.Unmarshal(body, &payload): an error for a body that is not JSON or
\* that gives a string member a non-string value; members that are absent
\* keep the zero value, unknown members are ignored, and the members that
\* do decode are stored even when another member fails.
JsonUnmarshal(body) ==
  LET raw == BodyList[body]
      has(f) == f \in DOMAIN raw.obj
      good(f) == has(f) /\ raw.obj[f].t = "string"
  IN IF raw.kind = "garbage"
     THEN [err |-> TRUE, payload |-> ZeroPayload]
     ELSE [err |-> \E f \in PayloadFields : has(f) /\ ~good(f),
           payload |-> [f \in PayloadFields |->
                          IF good(f) THEN raw.obj[f].v ELSE Empty]]

(***************************************************************************)
(* HMAC-SHA256 and hex encoding.  The hash is idealised as collision-free  *)
(* on the keys and bodies of the model: every (key, body) pair has its own *)
(* digest, here one byte.  The hex encoding is computed.                   *)
(***************************************************************************)
Key1 == <<"k","1">>
Key2 == <<"k","2">>

SecretList == <<Empty, Key1, Key2>>

Secrets == {SecretList[i] : i \in DOMAIN SecretList}

KeyIndex(key) == CHOOSE i \in DOMAIN SecretList : SecretList[i] = key

\* hmac.New(sha256.New, key); mac.Write(msg); mac.Sum(nil)
HmacSHA256(key, msg) ==
  << (KeyIndex(key) - 1) * Len(BodyList) + (msg - 1) + 9 >>

HexDigits ==
  <<"0","1","2","3","4","5","6","7","8","9","a","b","c","d","e","f">>

\* hex.EncodeToString
RECURSIVE HexEncodeToString(_)
HexEncodeToString(bytes) ==
  IF bytes = << >> THEN << >>
  ELSE << HexDigits[(Head(bytes) \div 16) + 1],
          HexDigits[(Head(bytes) % 16) + 1] >>
       \o HexEncodeToString(Tail(bytes))

\* the signature the provider sends: generateHMACSignature of the tests
Sign(body, secret) == HexEncodeToString(HmacSHA256(secret, body))

\* hmac.Equal: equal lengths and equal bytes
HmacEqual(a, b) == Len(a) = Len(b) /\ \A i \in 1..Len(a) : a[i] = b[i]

(***************************************************************************)
(* OnramperManager.ValidateSignature                                       *)
(***************************************************************************)
ValidateSignatureNoSecretCheck(receivedSignature, payload, secret) ==
  HmacEqual(receivedSignature, HexEncodeToString(HmacSHA256(secret, payload)))

ValidateSignatureLengthOnly(receivedSignature, payload, secret) ==
  IF secret = Empty THEN FALSE
  ELSE Len(receivedSignature)
         = Len(HexEncodeToString(HmacSHA256(secret, payload)))

ValidateSignature(receivedSignature, payload, secret) ==
  IF secret = Empty THEN FALSE
  ELSE LET expectedMAC == HexEncodeToString(HmacSHA256(secret, payload))
       IN HmacEqual(receivedSignature, expectedMAC)

sInvalidSignature ==
  <<"i","n","v","a","l","i","d","-","s","i","g","n","a","t","u","r","e">>

\* the values a request may carry in X-Onramper-Webhook-Signature: absent
\* (empty), junk, and the digest of any body under any key, in lower-case
\* hex (as hex.EncodeToString writes it) or upper-case hex
Signatures ==
  {Empty, sInvalidSignature}
    \cup {Sign(b, s) : b \in Bodies, s \in Secrets}
    \cup {ToUpper(Sign(b, s)) : b \in Bodies, s \in Secrets}

(***************************************************************************)
(* The inputs of the status mapper: every word below, in lower case, upper *)
(* case and capitalised, alone, padded on either side, or followed by a    *)
(* second word.                                                            *)
(***************************************************************************)
MaxPad == 1

PadChars == {"x", " "}

RECURSIVE PadsOfLen(_)
PadsOfLen(n) ==
  IF n = 0 THEN {<< >>}
  ELSE {<<c>> \o p : c \in PadChars, p \in PadsOfLen(n - 1)}

Pads == UNION {PadsOfLen(n) : n \in 0..MaxPad}

StatusWords ==
  {sPending, sInProgress, sProcessing, sCompleted, sConfirmed, sPaid,
   sFailed, sError, sNew, sCanceled, sUnknown, Empty}

Capitalize(s) ==
  IF s = << >> THEN s ELSE <<ToUpperChar(Head(s))>> \o Tail(s)

Cased(s) == {s, ToUpper(s), Capitalize(s)}

StatusInputs ==
  UNION {Cased(p \o w \o q) : p \in Pads, w \in StatusWords, q \in Pads}
    \cup UNION {Cased(w1 \o w2) : w1 \in StatusWords, w2 \in StatusWords}

(***************************************************************************)
(* State                                                                   *)
(*   ledger         rows of terrace_schema.fiat_transactions               *)
(*   sessions       rows of terrace_schema.id_verification_sessions        *)
(*   storeUp        whether the GraphQL endpoint answers                   *)
(*   WebhookSecret  OnramperManager.WebhookSecret                          *)
(*   last           the last call made and what it returned                *)
(***************************************************************************)
NoCall == [op |-> "none"]

Init ==
  /\ inflight = {}
  /\ delivery = {}
  /\ ledger = {}
  /\ sessions = {}
  /\ storeUp = TRUE
  /\ WebhookSecret \in Secrets \ {Empty}
  /\ last = NoCall

(***************************************************************************)
(* The store behind the GraphQL endpoint, as the mutations of the client   *)
(* define it.                                                              *)
(***************************************************************************)
sAPPROVED == <<"A","P","P","R","O","V","E","D">>
sREJECTED == <<"R","E","J","E","C","T","E","D">>
sPENDING == <<"P","E","N","D","I","N","G">>
sBuy == <<"b","u","y">>

\* the "object" variable of the UpsertFiatTransaction mutation
FiatTransactionObject(onrampTx, userID) ==
  [ user_id |-> userID,
    transaction_id |-> onrampTx.transactionId,
    transaction_status |-> onrampTx.status,
    transaction_type |-> ToUpper(onrampTx.transactionType),
    wallet_address |-> onrampTx.walletAddress,
    onramp_transaction_id |-> onrampTx.onrampTransactionId ]

\* on_conflict.update_columns of the mutation: every column but user_id
\* and transaction_id
OnConflictUpdateOwner(row, obj) == obj

OnConflictUpdateKeepCompleted(row, obj) ==
  IF row.transaction_status = sCompleted THEN row
  ELSE [obj EXCEPT !.user_id = row.user_id]

OnConflictUpdateStatusOnly(row, obj) ==
  [row EXCEPT !.transaction_status = obj.transaction_status]

OnConflictUpdate(row, obj) ==
  [ row EXCEPT !.transaction_status = obj.transaction_status,
               !.transaction_type = obj.transaction_type,
               !.wallet_address = obj.wallet_address,
               !.onramp_transaction_id = obj.onramp_transaction_id ]

InsertFiatTransactionNoConstraint(rows, obj) == rows \cup {obj}

\* insert_terrace_schema_fiat_transactions_one with
\* on_conflict {constraint: fiat_transactions_uk_transaction_id}
InsertFiatTransaction(rows, obj) ==
  IF \E r \in rows : r.transaction_id = obj.transaction_id
  THEN { IF r.transaction_id = obj.transaction_id
         THEN OnConflictUpdate(r, obj) ELSE r : r \in rows }
  ELSE rows \cup {obj}

\* the row the mutation returns: the inserted or updated row
ReturnedFiatTransaction(rows, obj) ==
  CHOOSE r \in InsertFiatTransaction(rows, obj) :
    r.transaction_id = obj.transaction_id

\* GraphQLClient.UpsertOnramperTransaction: the ledger after the call, the
\* user id returned and whether an error is returned
UpsertOnramperTransactionNoVerify(up, rows, onrampTx, userID) ==
  LET obj == FiatTransactionObject(onrampTx, userID)
  IN IF ~up
     THEN [ledger |-> rows, userID |-> Empty, err |-> TRUE]
     ELSE [ledger |-> InsertFiatTransaction(rows, obj),
           userID |-> ReturnedFiatTransaction(rows, obj).user_id,
           err |-> FALSE]

UpsertOnramperTransaction(up, rows, onrampTx, userID) ==
  LET obj == FiatTransactionObject(onrampTx, userID)
      ret == ReturnedFiatTransaction(rows, obj)
  IN IF ~up
     THEN [ledger |-> rows, userID |-> Empty, err |-> TRUE]
     ELSE IF ret.user_id = Empty
     THEN [ledger |-> InsertFiatTransaction(rows, obj), userID |-> Empty,
           err |-> TRUE]
     ELSE [ledger |-> InsertFiatTransaction(rows, obj),
           userID |-> ret.user_id, err |-> FALSE]

InsertVerificationSessionAllUsers(rows, userID, newStatus) ==
  IF \E r \in rows : r.user_id = userID
  THEN { IF r.status # sAPPROVED
         THEN [r EXCEPT !.status = newStatus] ELSE r : r \in rows }
  ELSE rows \cup {[user_id |-> userID, status |-> newStatus]}

InsertVerificationSessionWhereNotRejected(rows, userID, newStatus) ==
  IF \E r \in rows : r.user_id = userID
  THEN { IF r.user_id = userID /\ r.status # sREJECTED
         THEN [r EXCEPT !.status = newStatus] ELSE r : r \in rows }
  ELSE rows \cup {[user_id |-> userID, status |-> newStatus]}

InsertVerificationSessionNoWhere(rows, userID, newStatus) ==
  IF \E r \in rows : r.user_id = userID
  THEN { IF r.user_id = userID THEN [r EXCEPT !.status = newStatus] ELSE r :
         r \in rows }
  ELSE rows \cup {[user_id |-> userID, status |-> newStatus]}

\* insert_terrace_schema_id_verification_sessions_one with on_conflict
\* {constraint: id_verification_sessions_user_id_key,
\*  update_columns: [status, updated_at], where: {status: {_neq: "APPROVED"}}}
InsertVerificationSession(rows, userID, newStatus) ==
  IF \E r \in rows : r.user_id = userID
  THEN { IF r.user_id = userID /\ r.status # sAPPROVED
         THEN [r EXCEPT !.status = newStatus] ELSE r : r \in rows }
  ELSE rows \cup {[user_id |-> userID, status |-> newStatus]}

\* the status the mutation returns: that of the row inserted or updated,
\* and none (null, decoded as the empty string) when the conflicting row
\* fails the where clause and is left alone
ReturnedSessionStatus(rows, userID, newStatus) ==
  IF \E r \in rows : r.user_id = userID /\ r.status = sAPPROVED
  THEN Empty
  ELSE newStatus

\* GraphQLClient.UpdateKYCStatus: the sessions after the call, the status
\* returned and whether an error is returned
UpdateKYCStatus(up, rows, userID, newStatus) ==
  LET status == ReturnedSessionStatus(rows, userID, newStatus)
  IN IF ~up
     THEN [sessions |-> rows, status |-> newStatus, err |-> TRUE]
     ELSE IF status = Empty
     THEN [sessions |-> InsertVerificationSession(rows, userID, newStatus),
           status |-> newStatus, err |-> TRUE]
     ELSE [sessions |-> InsertVerificationSession(rows, userID, newStatus),
           status |-> status, err |-> FALSE]

\* the stored verification state of a user, Empty when there is none
StoredStatus(rows, userID) ==
  IF \E r \in rows : r.user_id = userID
  THEN (CHOOSE r \in rows : r.user_id = userID).status
  ELSE Empty

StoreFail ==
  /\ storeUp
  /\ storeUp' = FALSE
  /\ last' = [op |-> "StoreFail"]
  /\ UNCHANGED <<ledger, sessions, WebhookSecret, inflight, delivery>>

StoreRecover ==
  /\ ~storeUp
  /\ storeUp' = TRUE
  /\ last' = [op |-> "StoreRecover"]
  /\ UNCHANGED <<ledger, sessions, WebhookSecret, inflight, delivery>>

(***************************************************************************)
(* OnramperManager.HandleKYCWebhook: the status of the payload, trimmed,   *)
(* and the switch that maps it to a verification state                     *)
(***************************************************************************)
Whitespace == {" ", "\t", "\n", "\r"}

\* strings.TrimSpace
RECURSIVE TrimSpace(_)
TrimSpace(s) ==
  IF s = << >> THEN s
  ELSE IF Head(s) \in Whitespace THEN TrimSpace(Tail(s))
  ELSE IF s[Len(s)] \in Whitespace THEN TrimSpace(SubSeq(s, 1, Len(s) - 1))
  ELSE s

NewStatusContains(rawStatus) ==
  LET in == ToLower(rawStatus)
  IN IF Contains(in, sCompleted) THEN [status |-> sAPPROVED, err |-> FALSE]
     ELSE IF Contains(in, sFailed) \/ Contains(in, sCanceled)
     THEN [status |-> sREJECTED, err |-> FALSE]
     ELSE IF Contains(in, sPending) THEN [status |-> sPENDING, err |-> FALSE]
     ELSE [status |-> Empty, err |-> TRUE]

\* switch strings.ToLower(rawStatus): the new verification state, or the
\* error "invalid status" of the default case
NewStatusDefaultPending(rawStatus) ==
  LET in == ToLower(rawStatus)
  IN IF in = sCompleted THEN [status |-> sAPPROVED, err |-> FALSE]
     ELSE IF in = sFailed \/ in = sCanceled
     THEN [status |-> sREJECTED, err |-> FALSE]
     ELSE [status |-> sPENDING, err |-> FALSE]

NewStatus(rawStatus) ==
  LET in == ToLower(rawStatus)
  IN IF in = sCompleted THEN [status |-> sAPPROVED, err |-> FALSE]
     ELSE IF in = sFailed \/ in = sCanceled
     THEN [status |-> sREJECTED, err |-> FALSE]
     ELSE IF in = sPending THEN [status |-> sPENDING, err |-> FALSE]
     ELSE [status |-> Empty, err |-> TRUE]

(***************************************************************************)
(* OnramperManager.WebhookHandler, POST /webhook/onramper.                 *)
(* writes is the sequence of status codes the handler passes to c.JSON;    *)
(* the response carries the first (gin ignores a status written after the  *)
(* headers are out).  parsed tells whether the body reached                *)
(* json.Unmarshal, storeCalls lists the store calls the handler made.      *)
(***************************************************************************)
WebhookResponse(secret, sig, body, readErr) ==
  LET valid == ValidateSignature(sig, body, secret)
      writes == IF readErr THEN <<400>>
                ELSE IF ~valid THEN <<401>>
                ELSE IF JsonUnmarshal(body).err THEN <<500, 200>>
                ELSE <<200>>
  IN [ op |-> "WebhookHandler", sig |-> sig, body |-> body,
       readErr |-> readErr, writes |-> writes, status |-> Head(writes),
       parsed |-> ~readErr /\ valid, storeCalls |-> << >> ]

WebhookHandlerNoReturnOn401(sig, body, readErr) ==
  /\ last' = [ WebhookResponse(WebhookSecret, sig, body, readErr)
               EXCEPT !.parsed = ~readErr ]
  /\ UNCHANGED <<ledger, sessions, storeUp, WebhookSecret, inflight, delivery>>

WebhookHandler(sig, body, readErr) ==
  /\ last' = WebhookResponse(WebhookSecret, sig, body, readErr)
  /\ UNCHANGED <<ledger, sessions, storeUp, WebhookSecret, inflight, delivery>>

\* the signature headers tried with a body: none, junk, the digest of the
\* body under every key, the configured key's digest in upper-case hex,
\* and the configured key's digest of another body
SignaturesFor(body) ==
  {Empty, sInvalidSignature}
    \cup {Sign(body, s) : s \in Secrets}
    \cup {ToUpper(Sign(body, WebhookSecret))}
    \cup {Sign((body % Len(BodyList)) + 1, WebhookSecret)}

(***************************************************************************)
(* OnramperManager.InitiateTransaction, POST checkout/intent               *)
(***************************************************************************)
\* what the upstream API answers to POST /checkout/intent
UpstreamAnswers ==
  {[failed |-> TRUE, txid |-> Empty, status |-> Empty, wallet |-> Empty]}
    \cup [ failed : {FALSE}, txid : {Empty, TX42, TX1},
           status : {ToUpper(sInProgress), sCompleted},
           wallet : {WalletA} ]

\* Client.InitiateTransaction: an error for a failed exchange and for an
\* answer without a transaction id
ClientInitiateTransaction(answer) ==
  [err |-> answer.failed \/ answer.txid = Empty, response |-> answer]

\* the requests: a user_id query parameter, whether the body binds, the
\* wallet address of the body, and the upstream's answer to it
InitiateRequests ==
  [ userID : {UserA, UserB}, bindErr : {FALSE}, wallet : {WalletA},
    answer : UpstreamAnswers ]
    \cup [ userID : {Empty, UserA}, bindErr : BOOLEAN,
           wallet : {Empty, WalletA},
           answer : {a \in UpstreamAnswers : a.failed} ]

InitiateTransaction(req) ==
  LET client == ClientInitiateTransaction(req.answer)
      txInfo == req.answer.txid
      onrampTx == [ transactionId |-> txInfo,
                    onrampTransactionId |-> txInfo,
                    status |-> MapTransactionStatus(req.answer.status),
                    walletAddress |-> req.answer.wallet,
                    transactionType |-> ToUpper(sBuy) ]
      up == UpsertOnramperTransaction(storeUp, ledger, onrampTx, req.userID)
      early == IF req.userID = Empty THEN <<400>>
               ELSE IF req.bindErr THEN <<400>>
               ELSE IF req.wallet = Empty THEN <<400>>
               ELSE IF client.err THEN <<500>>
               ELSE << >>
      noId == IF txInfo = Empty THEN <<500>> ELSE << >>
  IN IF early # << >>
     THEN /\ last' = [ op |-> "InitiateTransaction", req |-> req,
                       writes |-> early, status |-> Head(early),
                       storeCalls |-> << >>, user_id |-> Empty ]
          /\ UNCHANGED <<ledger, sessions, storeUp, WebhookSecret, inflight,
                         delivery>>
     ELSE /\ ledger' = up.ledger
          /\ last' = [ op |-> "InitiateTransaction", req |-> req,
                       writes |-> noId \o (IF up.err THEN <<500>> ELSE <<200>>),
                       status |-> Head(noId \o (IF up.err THEN <<500>>
                                                ELSE <<200>>)),
                       storeCalls |-> <<"UpsertOnramperTransaction">>,
                       user_id |-> IF up.err THEN Empty ELSE req.userID ]
          /\ UNCHANGED <<sessions, storeUp, WebhookSecret, inflight, delivery>>

(***************************************************************************)
(* The service as SetupRouter wires it                                     *)
(***************************************************************************)
Next ==
  \/ \E body \in Bodies : \E sig \in SignaturesFor(body) :
       WebhookHandler(sig, body, FALSE)
  \/ WebhookHandler(Empty, 1, TRUE)
  \/ \E req \in InitiateRequests : InitiateTransaction(req)
  \/ StoreFail
  \/ StoreRecover

Spec == Init /\ [][Next]_vars

(***************************************************************************)
(* The store client on its own: its methods called with any arguments      *)
(***************************************************************************)
Users == {UserA, UserB}

VerificationStates == {sPENDING, sAPPROVED, sREJECTED}

\* the payloads handed to UpsertOnramperTransaction
Payload(tid, otid, status, wallet) ==
  [ transactionId |-> tid, onrampTransactionId |-> otid, status |-> status,
    walletAddress |-> wallet, transactionType |-> sBuy, statusDate |-> 0 ]

\* the payload with the statusDate of its event, a day number
Dated(payload, day) == [payload EXCEPT !.statusDate = day]

StorePayloads ==
  { Dated(Payload(TX1, Empty, sPending, WalletA), 1),
    Dated(Payload(TX1, OTX1, sCompleted, WalletA), 2),
    Dated(Payload(TX1, OTX1, sPending, WalletB), 3),
    Dated(Payload(TX42, Empty, sCompleted, WalletA), 2),
    Dated(Payload(TX42, Empty, sFailed, WalletB), 1) }

\* the identities handed to UpsertOnramperTransaction: a caller may have none
UpsertUsers == Users \cup {Empty}

InitStore ==
  /\ inflight = {}
  /\ delivery = {}
  /\ ledger = {}
  /\ sessions = {}
  /\ storeUp = TRUE
  /\ WebhookSecret = Key1
  /\ last = NoCall

UpsertOnramperTransactionCall(onrampTx, userID) ==
  LET r == UpsertOnramperTransaction(storeUp, ledger, onrampTx, userID)
  IN /\ ledger' = r.ledger
     /\ last' = [ op |-> "UpsertOnramperTransaction", onrampTx |-> onrampTx,
                  userID |-> userID, returned |-> r.userID, err |-> r.err,
                  existed |-> \E row \in ledger :
                                row.transaction_id = onrampTx.transactionId,
                  changed |-> r.ledger # ledger,
                  prior |-> {row.transaction_status : row \in
                               {x \in ledger : x.transaction_id =
                                                 onrampTx.transactionId}} ]
     /\ UNCHANGED <<sessions, storeUp, WebhookSecret, inflight, delivery>>

UpdateKYCStatusCall(userID, newStatus) ==
  LET r == UpdateKYCStatus(storeUp, sessions, userID, newStatus)
  IN /\ sessions' = r.sessions
     /\ last' = [ op |-> "UpdateKYCStatus", userID |-> userID,
                  newStatus |-> newStatus, status |-> r.status,
                  err |-> r.err, prior |-> StoredStatus(sessions, userID) ]
     /\ UNCHANGED <<ledger, storeUp, WebhookSecret, inflight, delivery>>

NextStore ==
  \/ \E onrampTx \in StorePayloads, userID \in UpsertUsers :
       UpsertOnramperTransactionCall(onrampTx, userID)
  \/ \E userID \in Users, newStatus \in VerificationStates :
       UpdateKYCStatusCall(userID, newStatus)
  \/ StoreFail
  \/ StoreRecover

SpecStore == InitStore /\ [][NextStore]_vars

(***************************************************************************)
(* The manager's methods called one at a time                              *)
(***************************************************************************)
\* the rows the query of GetUserIDFromTransaction selects: _or of three _eq
QueryFiatTransactions(rows, transactionID, onrampTxID, walletAddress) ==
  { r \in rows : \/ r.transaction_id = transactionID
                 \/ r.onramp_transaction_id = onrampTxID
                 \/ r.wallet_address = walletAddress }

\* the data of the answer: terrace_schema_fiat_transactions is a list, of
\* at most one row (limit: 1), whichever the store picks
QueryAnswers(rows, transactionID, onrampTxID, walletAddress) ==
  LET hits == QueryFiatTransactions(rows, transactionID, onrampTxID,
                                    walletAddress)
  IN IF hits = {} THEN {[kind |-> "array", list |-> << >>]}
     ELSE {[kind |-> "array", list |-> <<r.user_id>>] : r \in hits}

\* GraphQLClient.GetUserIDFromTransaction on one answer: resultResponse
\* holds a struct where the answer holds a list, and json.Unmarshal refuses
\* to decode a list into a struct
GetUserIDFromTransaction(up, answer) ==
  IF ~up THEN [userID |-> Empty, err |-> TRUE]
  ELSE IF answer.kind # "object" THEN [userID |-> Empty, err |-> TRUE]
  ELSE IF answer.user_id = Empty THEN [userID |-> Empty, err |-> TRUE]
  ELSE [userID |-> answer.user_id, err |-> FALSE]

\* OnramperManager.UpdateTransaction: userID is declared and never assigned
UpdateTransaction(up, rows, payload) ==
  LET userID == Empty
      r == UpsertOnramperTransaction(up, rows, payload, userID)
  IN IF userID = Empty \/ payload.transactionId = Empty
        \/ payload.status = Empty
     THEN [ledger |-> rows, userID |-> Empty, err |-> TRUE,
           storeCalls |-> << >>]
     ELSE [ledger |-> r.ledger, userID |-> r.userID, err |-> r.err,
           storeCalls |-> <<"UpsertOnramperTransaction">>]

\* OnramperManager.HandleKYCWebhook on the answer the store gives to the
\* identity lookup
HandleKYCWebhook(up, sess, payload, answer) ==
  LET transactionID == TrimSpace(payload.transactionId)
      onrampTxID == TrimSpace(payload.onrampTransactionId)
      walletAddress == TrimSpace(payload.walletAddress)
      rawStatus == TrimSpace(payload.status)
      user == GetUserIDFromTransaction(up, answer)
      new == NewStatus(rawStatus)
      kyc == UpdateKYCStatus(up, sess, user.userID, new.status)
  IN IF transactionID = Empty /\ onrampTxID = Empty /\ walletAddress = Empty
     THEN [sessions |-> sess, kycStatus |-> Empty, err |-> TRUE,
           storeCalls |-> << >>]
     ELSE IF user.err \/ new.err
     THEN [sessions |-> sess, kycStatus |-> Empty, err |-> TRUE,
           storeCalls |-> <<"GetUserIDFromTransaction">>]
     ELSE [sessions |-> kyc.sessions,
           kycStatus |-> IF kyc.err THEN Empty ELSE kyc.status,
           err |-> kyc.err,
           storeCalls |-> <<"GetUserIDFromTransaction", "UpdateKYCStatus">>]

\* the payloads handed to the manager's methods
ManagerPayloads ==
  StorePayloads \cup
    { Payload(Empty, Empty, sCompleted, Empty),
      Payload(Empty, OTX1, sCompleted, Empty),
      Payload(TX1, Empty, Empty, WalletA),
      Payload(TX42, Empty, <<" ">> \o ToUpper(sCompleted), WalletA),
      Payload(TX42, Empty, sPaid, WalletA) }

UpdateTransactionCall(payload) ==
  LET r == UpdateTransaction(storeUp, ledger, payload)
  IN /\ ledger' = r.ledger
     /\ last' = [ op |-> "UpdateTransaction", payload |-> payload,
                  returned |-> r.userID, err |-> r.err,
                  storeCalls |-> r.storeCalls ]
     /\ UNCHANGED <<sessions, storeUp, WebhookSecret, inflight, delivery>>

HandleKYCWebhookCall(payload) ==
  \E answer \in QueryAnswers(ledger, TrimSpace(payload.transactionId),
                             TrimSpace(payload.onrampTransactionId),
                             TrimSpace(payload.walletAddress)) :
    LET r == HandleKYCWebhook(storeUp, sessions, payload, answer)
    IN /\ sessions' = r.sessions
       /\ last' = [ op |-> "HandleKYCWebhook", payload |-> payload,
                    kycStatus |-> r.kycStatus, err |-> r.err,
                    storeCalls |-> r.storeCalls ]
       /\ UNCHANGED <<ledger, storeUp, WebhookSecret, inflight, delivery>>

(***************************************************************************)
(* The read handlers: a parameter check, then one call of the upstream     *)
(* payment API whose outcome is an input                                   *)
(***************************************************************************)
sUSD == <<"U","S","D">>
sBTC == <<"B","T","C">>
sUS == <<"U","S">>

\* what a read handler leaves behind: the statuses written, the status the
\* client sees and the calls made on onramperClient
ReadResponse(op, params, failed, writes, upstreamCalls) ==
  [ op |-> op, params |-> params, failed |-> failed, writes |-> writes,
    status |-> Head(writes), upstreamCalls |-> upstreamCalls ]

GetCryptoByFiatNoCheck(source, country, failed) ==
  /\ last' = ReadResponse("GetCryptoByFiat", <<source, country>>, failed,
                          IF failed THEN <<502>> ELSE <<200>>,
                          <<"GetCryptoByFiat">>)
  /\ UNCHANGED <<ledger, sessions, storeUp, WebhookSecret, inflight,
                 delivery>>

GetCryptoByFiat(source, country, failed) ==
  /\ last' = IF source = Empty
             THEN ReadResponse("GetCryptoByFiat", <<source, country>>,
                               failed, <<400>>, << >>)
             ELSE ReadResponse("GetCryptoByFiat", <<source, country>>,
                               failed, IF failed THEN <<502>> ELSE <<200>>,
                               <<"GetCryptoByFiat">>)
  /\ UNCHANGED <<ledger, sessions, storeUp, WebhookSecret, inflight,
                 delivery>>

GetQuotes(fiat, crypto, bindErr, failed) ==
  /\ last' = IF fiat = Empty \/ crypto = Empty
             THEN ReadResponse("GetQuotes", <<fiat, crypto>>, failed,
                               <<400>>, << >>)
             ELSE IF bindErr
             THEN ReadResponse("GetQuotes", <<fiat, crypto>>, failed,
                               <<400>>, << >>)
             ELSE ReadResponse("GetQuotes", <<fiat, crypto>>, failed,
                               IF failed THEN <<502>> ELSE <<200>>,
                               <<"GetQuotes">>)
  /\ UNCHANGED <<ledger, sessions, storeUp, WebhookSecret, inflight,
                 delivery>>

GetTransactionByID(transactionID, failed) ==
  /\ last' = IF transactionID = Empty
             THEN ReadResponse("GetTransactionByID", <<transactionID>>,
                               failed, <<400>>, << >>)
             ELSE ReadResponse("GetTransactionByID", <<transactionID>>,
                               failed, IF failed THEN <<502>> ELSE <<200>>,
                               <<"GetTransactionByID">>)
  /\ UNCHANGED <<ledger, sessions, storeUp, WebhookSecret, inflight,
                 delivery>>

NextManager ==
  \/ \E onrampTx \in StorePayloads, userID \in UpsertUsers :
       UpsertOnramperTransactionCall(onrampTx, userID)
  \/ \E req \in InitiateRequests : InitiateTransaction(req)
  \/ \E payload \in ManagerPayloads : UpdateTransactionCall(payload)
  \/ \E payload \in ManagerPayloads : HandleKYCWebhookCall(payload)
  \/ \E source \in {Empty, sUSD}, country \in {Empty, sUS},
        failed \in BOOLEAN : GetCryptoByFiat(source, country, failed)
  \/ \E fiat \in {Empty, sUSD}, crypto \in {Empty, sBTC},
        bindErr \in BOOLEAN, failed \in BOOLEAN :
       GetQuotes(fiat, crypto, bindErr, failed)
  \/ \E transactionID \in {Empty, TX1}, failed \in BOOLEAN :
       GetTransactionByID(transactionID, failed)
  \/ StoreFail
  \/ StoreRecover

SpecManager == InitStore /\ [][NextManager]_vars

(***************************************************************************)
(* Requests in flight together: a handler sends its store call, the store  *)
(* executes the calls it has received one at a time in any order, and the  *)
(* handler goes on when its call is answered                               *)
(***************************************************************************)
MaxInflight == 2

\* context.Background(): no deadline, never cancelled
ContextBackground == [deadline |-> FALSE]

\* the http.Client of NewGraphQLClient: a Transport and no Timeout
httpClient == [timeout |-> FALSE]

\* a call on its way to the store, with what bounds the wait for its answer
StoreCall(caller, op, onrampTx, userID, ctx) ==
  [ caller |-> caller, op |-> op, onrampTx |-> onrampTx, userID |-> userID,
    deadline |-> ctx.deadline, timeout |-> httpClient.timeout ]

\* the payload InitiateTransaction builds from the upstream's answer
InitiateOnrampTx(answer) ==
  [ transactionId |-> answer.txid,
    onrampTransactionId |-> answer.txid,
    status |-> MapTransactionStatus(answer.status),
    walletAddress |-> answer.wallet,
    transactionType |-> ToUpper(sBuy),
    statusDate |-> 0 ]

\* concurrent writers of one transaction id: client calls and initiations
ConcurrentPayloads == {p \in StorePayloads : p.transactionId = TX1}

ConcurrentRequests ==
  { req \in InitiateRequests :
      /\ req.userID # Empty /\ ~req.bindErr /\ req.wallet # Empty
      /\ ~ClientInitiateTransaction(req.answer).err
      /\ req.answer.txid = TX1 }

ConcurrentLookups ==
  { Payload(TX1, Empty, sCompleted, WalletA),
    Payload(Empty, OTX1, sPending, Empty) }

Send(call) ==
  /\ Cardinality(inflight) < MaxInflight
  /\ call \notin inflight
  /\ inflight' = inflight \cup {call}
  /\ last' = [op |-> "Send", call |-> call]
  /\ UNCHANGED <<ledger, sessions, storeUp, WebhookSecret, delivery>>

UpsertOnramperTransactionSend(onrampTx, userID) ==
  Send(StoreCall("client", "UpsertOnramperTransaction", onrampTx, userID,
                 ContextBackground))

\* InitiateTransaction up to its store call, for a request that gets there
InitiateTransactionSend(req) ==
  Send(StoreCall("InitiateTransaction", "UpsertOnramperTransaction",
                 InitiateOnrampTx(req.answer), req.userID,
                 ContextBackground))

\* HandleKYCWebhook up to its identity lookup
HandleKYCWebhookSend(payload) ==
  /\ \/ TrimSpace(payload.transactionId) # Empty
     \/ TrimSpace(payload.onrampTransactionId) # Empty
     \/ TrimSpace(payload.walletAddress) # Empty
  /\ Send(StoreCall("HandleKYCWebhook", "GetUserIDFromTransaction",
                    payload, Empty, ContextBackground))

\* the store executes an upsert it has received and the caller goes on:
\* InitiateTransaction answers 500 on an error and 200 otherwise
UpsertAnswered(call) ==
  LET r == UpsertOnramperTransaction(storeUp, ledger, call.onrampTx,
                                     call.userID)
  IN /\ call \in inflight
     /\ call.op = "UpsertOnramperTransaction"
     /\ inflight' = inflight \ {call}
     /\ ledger' = r.ledger
     /\ last' = [ op |-> "Answered", call |-> call, returned |-> r.userID,
                  err |-> r.err,
                  existed |-> \E row \in ledger :
                       row.transaction_id = call.onrampTx.transactionId,
                  status |-> IF call.caller # "InitiateTransaction" THEN 0
                             ELSE IF r.err THEN 500 ELSE 200 ]
     /\ UNCHANGED <<sessions, storeUp, WebhookSecret, delivery>>

\* the store answers an identity lookup and HandleKYCWebhook goes on
LookupAnswered(call) ==
  /\ call \in inflight
  /\ call.op = "GetUserIDFromTransaction"
  /\ \E answer \in QueryAnswers(ledger,
                                TrimSpace(call.onrampTx.transactionId),
                                TrimSpace(call.onrampTx.onrampTransactionId),
                                TrimSpace(call.onrampTx.walletAddress)) :
       LET r == HandleKYCWebhook(storeUp, sessions, call.onrampTx, answer)
       IN /\ sessions' = r.sessions
          /\ last' = [ op |-> "Answered", call |-> call,
                       returned |-> r.kycStatus, err |-> r.err,
                       existed |-> answer.list # << >>, status |-> 0 ]
  /\ inflight' = inflight \ {call}
  /\ UNCHANGED <<ledger, storeUp, WebhookSecret, delivery>>

NextConcurrent ==
  \/ \E onrampTx \in ConcurrentPayloads, userID \in UpsertUsers :
       UpsertOnramperTransactionSend(onrampTx, userID)
  \/ \E req \in ConcurrentRequests : InitiateTransactionSend(req)
  \/ \E payload \in ConcurrentLookups : HandleKYCWebhookSend(payload)
  \/ \E call \in inflight : UpsertAnswered(call)
  \/ \E call \in inflight : LookupAnswered(call)

SpecConcurrent == InitStore /\ [][NextConcurrent]_vars

(***************************************************************************)
(* Verification writes in flight together: each is sent, and the store     *)
(* executes the writes it has received one at a time in any order          *)
(***************************************************************************)
KYCCall(userID, newStatus, ctx) ==
  [ op |-> "UpdateKYCStatus", userID |-> userID, newStatus |-> newStatus,
    deadline |-> ctx.deadline, timeout |-> httpClient.timeout ]

UpdateKYCStatusSend(userID, newStatus) ==
  Send(KYCCall(userID, newStatus, ContextBackground))

UpdateKYCStatusAnswered(call) ==
  LET r == UpdateKYCStatus(storeUp, sessions, call.userID, call.newStatus)
  IN /\ call \in inflight
     /\ inflight' = inflight \ {call}
     /\ sessions' = r.sessions
     /\ last' = [ op |-> "Answered", call |-> call, status |-> r.status,
                  err |-> r.err,
                  prior |-> StoredStatus(sessions, call.userID) ]
     /\ UNCHANGED <<ledger, storeUp, WebhookSecret, delivery>>

NextConcurrentKYC ==
  \/ \E userID \in Users, newStatus \in VerificationStates :
       UpdateKYCStatusSend(userID, newStatus)
  \/ \E call \in inflight : UpdateKYCStatusAnswered(call)

SpecConcurrentKYC == InitStore /\ [][NextConcurrentKYC]_vars

(***************************************************************************)
(* The KYC step over a populated store: verification writes and a few      *)
(* ledger upserts made through the client, and HandleKYCWebhook            *)
(***************************************************************************)
KYCPayloads ==
  ManagerPayloads \cup
    { Payload(TX1, Empty, sNew, WalletA),
      Payload(TX1, Empty, sInProgress, WalletA),
      Payload(TX42, OTX1, sFailed, Empty) }

KYCUpserts ==
  { Payload(TX1, OTX1, sCompleted, WalletA),
    Payload(TX42, Empty, sPending, Empty) }

\* GetUserIDFromTransaction called by itself, on each answer the store can
\* give to its query
GetUserIDFromTransactionCall(transactionID, onrampTxID, walletAddress) ==
  \E answer \in QueryAnswers(ledger, transactionID, onrampTxID,
                             walletAddress) :
    LET r == GetUserIDFromTransaction(storeUp, answer)
    IN /\ last' = [ op |-> "GetUserIDFromTransaction",
                    transactionID |-> transactionID,
                    onrampTxID |-> onrampTxID,
                    walletAddress |-> walletAddress,
                    answer |-> answer.list, userID |-> r.userID,
                    err |-> r.err ]
       /\ UNCHANGED <<ledger, sessions, storeUp, WebhookSecret, inflight,
                      delivery>>

NextKYC ==
  \/ \E onrampTx \in KYCUpserts, userID \in Users :
       UpsertOnramperTransactionCall(onrampTx, userID)
  \/ \E userID \in Users, newStatus \in VerificationStates :
       UpdateKYCStatusCall(userID, newStatus)
  \/ \E payload \in KYCPayloads : HandleKYCWebhookCall(payload)
  \/ \E transactionID \in {Empty, TX1}, onrampTxID \in {Empty, OTX1},
        walletAddress \in {Empty, WalletA} :
       GetUserIDFromTransactionCall(transactionID, onrampTxID, walletAddress)
  \/ StoreFail
  \/ StoreRecover

SpecKYC == InitStore /\ [][NextKYC]_vars

(***************************************************************************)
(* The provider: it delivers each of its events, signed, to the webhook    *)
(* endpoint, and delivers an event again until it is answered 2xx          *)
(***************************************************************************)
InitLive ==
  /\ inflight = {}
  /\ delivery = Bodies
  /\ ledger = {}
  /\ sessions = {}
  /\ storeUp = TRUE
  /\ WebhookSecret = Key1
  /\ last = NoCall

Deliver(body) ==
  LET r == WebhookResponse(WebhookSecret, Sign(body, WebhookSecret), body,
                           FALSE)
  IN /\ body \in delivery
     /\ last' = r
     /\ delivery' = IF r.status >= 200 /\ r.status < 300
                    THEN delivery \ {body} ELSE delivery
     /\ UNCHANGED <<ledger, sessions, storeUp, WebhookSecret, inflight>>

NextLive ==
  \/ \E body \in Bodies : Deliver(body)
  \/ StoreFail
  \/ StoreRecover

\* the server handles every request it is sent: each delivery that stays
\* possible is eventually made
SpecLive ==
  /\ InitLive
  /\ [][NextLive]_vars
  /\ \A body \in Bodies : WF_vars(Deliver(body))

(***************************************************************************)
(* The pure functions, each applied to an argument drawn at the start      *)
(***************************************************************************)
InitPure ==
  /\ inflight = {}
  /\ delivery = {}
  /\ ledger = {}
  /\ sessions = {}
  /\ storeUp = TRUE
  /\ WebhookSecret = Key1
  /\ \/ \E sig \in Signatures, body \in Bodies, secret \in Secrets :
          last = [op |-> "call ValidateSignature", sig |-> sig,
                  body |-> body, secret |-> secret]
     \/ \E input \in StatusInputs :
          last = [op |-> "call MapTransactionStatus", input |-> input]
     \/ \E input \in StatusInputs :
          last = [op |-> "call NewStatus", input |-> input]

ValidateSignatureCall ==
  /\ last.op = "call ValidateSignature"
  /\ last' = [op |-> "ValidateSignature", sig |-> last.sig,
              body |-> last.body, secret |-> last.secret,
              result |-> ValidateSignature(last.sig, last.body, last.secret)]
  /\ UNCHANGED <<ledger, sessions, storeUp, WebhookSecret, inflight, delivery>>

MapTransactionStatusCall ==
  /\ last.op = "call MapTransactionStatus"
  /\ last' = [op |-> "MapTransactionStatus", input |-> last.input,
              result |-> MapTransactionStatus(last.input)]
  /\ UNCHANGED <<ledger, sessions, storeUp, WebhookSecret, inflight, delivery>>

\* the status of a payload as HandleKYCWebhook maps it
NewStatusCall ==
  /\ last.op = "call NewStatus"
  /\ last' = [op |-> "NewStatus", input |-> last.input,
              result |-> NewStatus(TrimSpace(last.input))]
  /\ UNCHANGED <<ledger, sessions, storeUp, WebhookSecret, inflight, delivery>>

NextPure == ValidateSignatureCall \/ MapTransactionStatusCall \/ NewStatusCall

SpecPure == InitPure /\ [][NextPure]_vars

(***************************************************************************)
(* Properties                                                              *)
(***************************************************************************)
\* whether the last handler made the named store call
Called(name) == \E i \in DOMAIN last.storeCalls : last.storeCalls[i] = name

\* the last call was a webhook whose body was read
WebhookDone == last.op = "WebhookHandler" /\ ~last.readErr

\* the event carried by the body of the last webhook
Event == JsonUnmarshal(last.body).payload

\* the last webhook was signed with the configured secret, and its body is
\* a payload with a transaction id and a status
AuthenticEvent ==
  /\ WebhookDone
  /\ last.sig = Sign(last.body, WebhookSecret)
  /\ ~JsonUnmarshal(last.body).err
  /\ Event.transactionId # Empty
  /\ Event.status # Empty

\* C1: whenever the webhook endpoint answers 200, the request has upserted
\* its event and the ledger holds a record for the event's transaction id.
C1_OkOnlyAfterUpsert ==
  (last.op = "WebhookHandler" /\ last.status = 200)
    => /\ Called("UpsertOnramperTransaction")
       /\ \E r \in ledger : r.transaction_id = Event.transactionId

\* C2: a webhook whose signature header is not the hex HMAC-SHA256 of its
\* body under the configured secret is answered 401 and nothing else; its
\* body never reaches the parser, no store call is made, and the ledger and
\* the verification sessions are left as they were.
C2_BadSignatureRejected ==
  [][ ( /\ last'.op = "WebhookHandler"
        /\ ~last'.readErr
        /\ last'.sig # Sign(last'.body, WebhookSecret) )
      => /\ last'.writes = <<401>>
         /\ last'.status = 401
         /\ ~last'.parsed
         /\ last'.storeCalls = << >>
         /\ ledger' = ledger
         /\ sessions' = sessions ]_vars

\* a request signed under a key other than the configured one was refused
C2_Witness ==
  /\ WebhookDone
  /\ WebhookSecret = Key1
  /\ last.sig = Sign(last.body, Key2)
  /\ last.status = 401

\* C3: a webhook with a valid signature and a valid payload that arrives
\* while the ledger store fails is answered 500, and neither the identity
\* lookup nor the verification write is attempted for it.
C3_StoreFailureIs500 ==
  (AuthenticEvent /\ ~storeUp)
    => /\ last.status = 500
       /\ ~Called("GetUserIDFromTransaction")
       /\ ~Called("UpdateKYCStatus")

\* C4: a webhook whose event is recorded and whose KYC step fails (here a
\* status with no verification mapping, paid) is answered 200 and the
\* ledger record the request wrote is in place.
C4_KycFailureKeepsRecord ==
  (AuthenticEvent /\ storeUp /\ Event.status = sPaid)
    => /\ last.status = 200
       /\ Called("UpsertOnramperTransaction")
       /\ \E r \in ledger : r.transaction_id = Event.transactionId

\* C5: a validly signed webhook with status completed and transaction id
\* TX42 is answered 200, and afterwards the ledger holds a record for TX42
\* with status completed whose owner's verification state is APPROVED.
C5_CompletedEndToEnd ==
  ( /\ AuthenticEvent /\ storeUp
    /\ Event.transactionId = TX42 /\ Event.status = sCompleted )
    => /\ last.status = 200
       /\ \E r \in ledger :
            /\ r.transaction_id = TX42
            /\ r.transaction_status = sCompleted
            /\ StoredStatus(sessions, r.user_id) = sAPPROVED

\* C6: the ledger holds one record per transaction id, and applying an
\* upsert that succeeded once more leaves the ledger as it is, with one
\* record for the id carrying the status of the event.
C6_UpsertIdempotent ==
  /\ \A r1, r2 \in ledger : r1.transaction_id = r2.transaction_id => r1 = r2
  /\ (last.op = "UpsertOnramperTransaction" /\ ~last.err)
       => LET again == UpsertOnramperTransaction(TRUE, ledger, last.onrampTx,
                                                 last.userID)
              mine == {r \in ledger :
                         r.transaction_id = last.onrampTx.transactionId}
          IN /\ again.ledger = ledger
             /\ ~again.err
             /\ again.userID = last.returned
             /\ Cardinality(mine) = 1
             /\ \A r \in mine : r.transaction_status = last.onrampTx.status

\* the second of two identical deliveries of TX1/pending: the record was
\* there, the upsert changed nothing, and the ledger has one pending record
C6_Witness ==
  /\ last.op = "UpsertOnramperTransaction"
  /\ ~last.err
  /\ last.existed
  /\ ~last.changed
  /\ last.onrampTx.transactionId = TX1
  /\ last.onrampTx.status = sPending
  /\ Cardinality({r \in ledger : r.transaction_id = TX1}) = 1

\* C7: a user's stored verification state, once APPROVED, is APPROVED after
\* every step, whatever is written for the user later.
C7_ApprovedRatchet ==
  [][ \A u \in Users :
        StoredStatus(sessions, u) = sAPPROVED
          => StoredStatus(sessions', u) = sAPPROVED ]_vars

\* REJECTED was written for an APPROVED user and the user is still APPROVED
C7_Witness ==
  /\ last.op = "UpdateKYCStatus"
  /\ last.prior = sAPPROVED
  /\ last.newStatus = sREJECTED
  /\ StoredStatus(sessions, last.userID) = sAPPROVED

\* C8: under a non-empty secret S, ValidateSignature accepts the hex HMAC
\* of the body under S and refuses every other value, the HMAC of the body
\* under another secret included.
C8_SignatureCorrect ==
  (last.op = "ValidateSignature" /\ last.secret # Empty)
    => /\ last.result <=> (last.sig = Sign(last.body, last.secret))
       /\ \A s \in Secrets \ {last.secret} :
            last.sig = Sign(last.body, s) => ~last.result

\* the body's HMAC under the secret was accepted
C8_Witness ==
  /\ last.op = "ValidateSignature"
  /\ last.secret = Key2
  /\ last.sig = Sign(last.body, Key2)
  /\ last.result

\* C9: under the empty secret ValidateSignature refuses every signature of
\* every body, the HMAC of the body under the empty key included, and a
\* webhook handled under the empty secret is answered 401 unparsed.
C9_EmptySecretRejects ==
  (last.op = "ValidateSignature" /\ last.secret = Empty)
    => /\ ~last.result
       /\ LET r == WebhookResponse(Empty, last.sig, last.body, FALSE)
          IN r.status = 401 /\ ~r.parsed

\* the HMAC of the body under the empty key was refused
C9_Witness ==
  /\ last.op = "ValidateSignature"
  /\ last.secret = Empty
  /\ last.sig = Sign(last.body, Empty)
  /\ ~last.result

\* an input that, in lower case, holds none of the mapper's keywords
Unrecognized(input) ==
  LET in == ToLower(input)
  IN /\ \A k \in {sPending, sInProgress, sProcessing, sCompleted,
                  sConfirmed, sFailed, sError} : ~Contains(in, k)
     /\ in # sPaid

\* C10: MapTransactionStatus maps every input to one of pending,
\* completed, paid, failed, new, whatever the case of its letters;
\* unrecognized inputs map to new and IN_PROGRESS maps to pending.
C10_MapTotalCaseInsensitive ==
  last.op = "MapTransactionStatus"
    => /\ last.result \in CanonicalStates
       /\ last.result = MapTransactionStatus(ToLower(last.input))
       /\ last.result = MapTransactionStatus(ToUpper(last.input))
       /\ Unrecognized(last.input) => last.result = sNew
       /\ ToLower(last.input) = sInProgress => last.result = sPending

\* IN_PROGRESS in upper case was mapped to pending
C10_Witness ==
  /\ last.op = "MapTransactionStatus"
  /\ last.input = ToUpper(sInProgress)
  /\ last.result = sPending

\* C11: the verification mapping, comparing the (trimmed) status without
\* regard to case, gives APPROVED for completed, REJECTED for failed and
\* for canceled, PENDING for pending, and fails with no state for every
\* other status; a state it yields is PENDING, APPROVED or REJECTED.
C11_VerificationMapping ==
  last.op = "NewStatus"
    => LET in == ToLower(TrimSpace(last.input))
           r == last.result
       IN /\ in = sCompleted => (~r.err /\ r.status = sAPPROVED)
          /\ in \in {sFailed, sCanceled} => (~r.err /\ r.status = sREJECTED)
          /\ in = sPending => (~r.err /\ r.status = sPENDING)
          /\ in \notin {sCompleted, sFailed, sCanceled, sPending}
               => (r.err /\ r.status = Empty)
          /\ ~r.err => r.status \in VerificationStates

\* Canceled, capitalised, was mapped to REJECTED
C11_Witness ==
  /\ last.op = "NewStatus"
  /\ last.input = Capitalize(sCanceled)
  /\ ~last.result.err
  /\ last.result.status = sREJECTED

\* the last webhook carried the signature of its body under the
\* configured secret
SignedWebhook == WebhookDone /\ last.sig = Sign(last.body, WebhookSecret)

\* C12: a validly signed webhook whose body does not decode as the payload
\* is answered 400, and no store call is made for it.
C12_MalformedIs400 ==
  (SignedWebhook /\ JsonUnmarshal(last.body).err)
    => /\ last.writes = <<400>>
       /\ last.status = 400
       /\ last.storeCalls = << >>

\* C13: a validly signed, decoded event with neither transaction id, or
\* with no status, is answered 400 and no ledger upsert is issued for it.
C13_IncompleteEventIs400 ==
  ( /\ SignedWebhook
    /\ ~JsonUnmarshal(last.body).err
    /\ \/ Event.transactionId = Empty /\ Event.onrampTransactionId = Empty
       \/ Event.status = Empty )
    => /\ last.status = 400
       /\ ~Called("UpsertOnramperTransaction")

\* C14: the owner of a ledger record is the identity of the upsert that
\* inserted it: no step changes the owner of a record or removes a record,
\* and an upsert that succeeds returns the stored owner, which is the
\* caller's identity only when the record was not there before.
C14_OwnerFixedAtInsert ==
  [][ /\ \A r \in ledger : \E r2 \in ledger' :
           /\ r2.transaction_id = r.transaction_id
           /\ r2.user_id = r.user_id
      /\ (last'.op = "UpsertOnramperTransaction" /\ ~last'.err)
           => LET tid == last'.onrampTx.transactionId
                  before == {r \in ledger : r.transaction_id = tid}
                  after == {r \in ledger' : r.transaction_id = tid}
              IN /\ after # {}
                 /\ \A r2 \in after :
                      /\ last'.returned = r2.user_id
                      /\ before = {} => r2.user_id = last'.userID
                      /\ \A r \in before : r2.user_id = r.user_id ]_vars

\* a second caller upserted an existing id under another identity and was
\* handed the stored owner
C14_Witness ==
  /\ last.op = "UpsertOnramperTransaction"
  /\ ~last.err
  /\ last.existed
  /\ last.userID = UserB
  /\ last.returned = UserA
  /\ \E r \in ledger : /\ r.transaction_id = last.onrampTx.transactionId
                       /\ r.user_id = UserA

\* C17: a call of UpdateKYCStatus(user, s) that the store answers returns,
\* without error, the verification state stored for the user after the
\* call: s when the write is applied, APPROVED when the stored state is
\* APPROVED and s is PENDING or REJECTED.
C17_ReturnsStoredState ==
  (last.op = "UpdateKYCStatus" /\ storeUp)
    => /\ ~last.err
       /\ last.status = StoredStatus(sessions, last.userID)
       /\ (last.prior = sAPPROVED /\ last.newStatus \in {sPENDING, sREJECTED})
            => last.status = sAPPROVED

\* the stored owner of a transaction id, Empty when the record has none
StoredOwner(rows, tid) ==
  IF \E r \in rows : r.transaction_id = tid
  THEN (CHOOSE r \in rows : r.transaction_id = tid).user_id
  ELSE Empty

\* C15: when the store answers a ledger upsert with a record that has no
\* owner, UpsertOnramperTransaction returns an error and the empty identity;
\* a request that made the call is answered 500 with no identity in its
\* answer and after that one store call, and UpdateTransaction returns the
\* error with the empty identity.
C15_EmptyOwnerIsError ==
  /\ ( /\ last.op = "UpsertOnramperTransaction" /\ storeUp
       /\ StoredOwner(ledger, last.onrampTx.transactionId) = Empty )
       => last.err /\ last.returned = Empty
  /\ ( /\ last.op = "InitiateTransaction" /\ storeUp
       /\ Called("UpsertOnramperTransaction")
       /\ StoredOwner(ledger, last.req.answer.txid) = Empty )
       => /\ last.status = 500
          /\ last.user_id = Empty
          /\ last.storeCalls = <<"UpsertOnramperTransaction">>
  /\ ( /\ last.op = "UpdateTransaction" /\ storeUp
       /\ Called("UpsertOnramperTransaction")
       /\ StoredOwner(ledger, last.payload.transactionId) = Empty )
       => last.err /\ last.returned = Empty

\* an initiation by UserA met the record of TX1 that has no owner and was
\* answered 500
C15_Witness ==
  /\ last.op = "InitiateTransaction"
  /\ storeUp
  /\ last.req.userID = UserA
  /\ last.req.answer.txid = TX1
  /\ Called("UpsertOnramperTransaction")
  /\ \E r \in ledger : r.transaction_id = TX1 /\ r.user_id = Empty
  /\ last.status = 500

\* the payloads the concurrent writers of TX1 send
ConcurrentWrites ==
  ConcurrentPayloads \cup {InitiateOnrampTx(req.answer) :
                             req \in ConcurrentRequests}

\* C16: whatever the order in which the store executes upserts of one
\* transaction id that are in flight together, the ledger holds one record
\* for the id, with one owner, and every field of the record but the owner
\* is that of one single upsert: of the one executed last.
C16_ConcurrentUpsertsAtomic ==
  /\ \A r1, r2 \in ledger : r1.transaction_id = r2.transaction_id => r1 = r2
  /\ \A r \in ledger :
       \E p \in ConcurrentWrites : r = FiatTransactionObject(p, r.user_id)
  /\ (last.op = "Answered" /\ last.call.op = "UpsertOnramperTransaction")
       => \E r \in ledger :
            r = FiatTransactionObject(last.call.onrampTx, r.user_id)

\* an upsert of TX1 by UserB was executed on the record UserA owns while
\* another upsert of TX1, with other field values, was still in flight
C16_Witness ==
  /\ last.op = "Answered"
  /\ last.call.op = "UpsertOnramperTransaction"
  /\ last.call.userID = UserB
  /\ last.existed
  /\ last.returned = UserA
  /\ \E c \in inflight :
       /\ c.op = "UpsertOnramperTransaction"
       /\ c.onrampTx.transactionId = last.call.onrampTx.transactionId
       /\ c.onrampTx # last.call.onrampTx
       /\ c.userID # last.call.userID

\* C18: a webhook request is answered even when a store call never is:
\* every call sent to the store is bounded, by a deadline of its context or
\* a timeout of the HTTP client, so that the wait for its answer ends.
C18_StoreCallsBounded ==
  \A call \in inflight : call.deadline \/ call.timeout

\* C20: GetCryptoByFiat called without source, GetQuotes called without its
\* source or its destination path parameter, and GetTransactionByID called
\* without transaction_id write 400 and nothing else, and make no call on
\* the upstream payment API.
C20_MissingParameterIs400 ==
  ( \/ last.op = "GetCryptoByFiat" /\ last.params[1] = Empty
    \/ last.op = "GetQuotes"
         /\ (last.params[1] = Empty \/ last.params[2] = Empty)
    \/ last.op = "GetTransactionByID" /\ last.params[1] = Empty )
    => /\ last.writes = <<400>>
       /\ last.status = 400
       /\ last.upstreamCalls = << >>

\* GetQuotes was called with a source and no destination, the upstream
\* being down, and answered 400
C20_Witness ==
  /\ last.op = "GetQuotes"
  /\ last.params = <<sUSD, Empty>>
  /\ last.failed
  /\ last.status = 400

\* the bodies that are events with a transaction id and a status
ValidEvents ==
  { b \in Bodies : /\ ~JsonUnmarshal(b).err
                   /\ JsonUnmarshal(b).payload.transactionId # Empty
                   /\ JsonUnmarshal(b).payload.status # Empty }

\* C19: with a provider that delivers a signed, valid event again after
\* every answer that is not 2xx, and a store that from some point on stays
\* available, the event is eventually recorded in the ledger and answered
\* 200.
C19_RedeliveryRecords ==
  \A b \in ValidEvents :
    (<>[]storeUp)
      => <>( /\ b \notin delivery
             /\ \E r \in ledger :
                  r.transaction_id = JsonUnmarshal(b).payload.transactionId )

\* C21: a webhook request runs its stages in order (body read, signature
\* checked, payload parsed, event reconciled, KYC synced), runs no stage
\* after one that failed, and writes exactly one status: the request that
\* fails a stage makes no store call, and the request answered 200 has
\* parsed its payload and reconciled its event.
C21_StagesInOrderOneResponse ==
  last.op = "WebhookHandler"
    => /\ Len(last.writes) = 1
       /\ ~last.parsed => last.storeCalls = << >>
       /\ (last.parsed /\ JsonUnmarshal(last.body).err)
            => last.storeCalls = << >>
       /\ last.status = 200
            => /\ last.parsed
               /\ ~JsonUnmarshal(last.body).err
               /\ Called("UpsertOnramperTransaction")

\* C22: after an upsert that succeeds, the status, the type, the wallet and
\* the provider's transaction id of the record are those of that upsert,
\* whatever the record held before and whatever the statusDate of the
\* event: a pending event applied to a completed record leaves it pending.
C22_LastWriteWins ==
  (last.op = "UpsertOnramperTransaction" /\ ~last.err)
    => \E r \in ledger :
         /\ r.transaction_id = last.onrampTx.transactionId
         /\ r.transaction_status = last.onrampTx.status
         /\ r.transaction_type = ToUpper(last.onrampTx.transactionType)
         /\ r.wallet_address = last.onrampTx.walletAddress
         /\ r.onramp_transaction_id = last.onrampTx.onrampTransactionId

\* the pending event of day 1 was applied to the record that the completed
\* event of day 2 had written, and the record is pending
C22_Witness ==
  /\ last.op = "UpsertOnramperTransaction"
  /\ ~last.err
  /\ last.onrampTx.status = sPending
  /\ last.onrampTx.statusDate = 1
  /\ last.prior = {sCompleted}
  /\ \E r \in ledger : /\ r.transaction_id = last.onrampTx.transactionId
                       /\ r.transaction_status = sPending

\* a status that, trimmed and in lower case, is none of the four words the
\* verification mapping knows
NoVerificationMapping(status) ==
  ToLower(TrimSpace(status)) \notin {sCompleted, sFailed, sCanceled, sPending}

\* C23: HandleKYCWebhook on an event whose status has no verification
\* mapping leaves the verification records as they are, makes no
\* UpdateKYCStatus call and returns an error with an empty state; and so it
\* does whichever user the identity lookup hands it.
C23_UnmappedStatusWritesNothing ==
  [][ (last'.op = "HandleKYCWebhook"
         /\ NoVerificationMapping(last'.payload.status))
      => /\ sessions' = sessions
         /\ last'.err
         /\ last'.kycStatus = Empty
         /\ \A i \in DOMAIN last'.storeCalls :
              last'.storeCalls[i] # "UpdateKYCStatus"
         /\ \A u \in Users :
              LET r == HandleKYCWebhook(TRUE, sessions, last'.payload,
                                        [kind |-> "object", user_id |-> u])
              IN /\ r.sessions = sessions
                 /\ r.err
                 /\ r.kycStatus = Empty
                 /\ r.storeCalls = <<"GetUserIDFromTransaction">> ]_vars

\* HandleKYCWebhook was called with a paid event for a recorded transaction
\* while verification records exist, and returned an error and no state
C23_Witness ==
  /\ last.op = "HandleKYCWebhook"
  /\ last.payload.status = sPaid
  /\ storeUp
  /\ \E r \in ledger : r.transaction_id = last.payload.transactionId
  /\ sessions # {}
  /\ last.err
  /\ last.kycStatus = Empty

\* the owners of the records that one of the identifiers of the last
\* lookup names, the empty identifiers naming none
NamedOwners ==
  { r.user_id : r \in
      { x \in ledger :
          \/ last.transactionID # Empty
               /\ x.transaction_id = last.transactionID
          \/ last.onrampTxID # Empty
               /\ x.onramp_transaction_id = last.onrampTxID
          \/ last.walletAddress # Empty
               /\ x.wallet_address = last.walletAddress } }

\* C24: a lookup that the store answers returns the owner of a record that
\* one of its non-empty identifiers names, the store selects no record
\* through an identifier that is empty in the call, and the lookup returns
\* an error and no user when no record is named.
C24_LookupByNonEmptyIdentifier ==
  (last.op = "GetUserIDFromTransaction" /\ storeUp)
    => /\ NamedOwners # {} => ~last.err /\ last.userID \in NamedOwners
       /\ NamedOwners = {} => last.err /\ last.userID = Empty
       /\ \A i \in DOMAIN last.answer : last.answer[i] \in NamedOwners

\* C25: the user_id that InitiateTransaction reports in its 200 answer is
\* the owner stored for the transaction, also when the record existed under
\* another owner than the caller: the stored owner is kept and is the one
\* reported.
C25_ReportsStoredOwner ==
  [][ (last'.op = "InitiateTransaction" /\ last'.status = 200)
      => /\ \A r \in ledger : \E r2 \in ledger' :
              /\ r2.transaction_id = r.transaction_id
              /\ r2.user_id = r.user_id
         /\ last'.user_id = StoredOwner(ledger', last'.req.answer.txid) ]_vars

\* C26: whatever the order in which the store executes verification writes
\* that are in flight together, a user has at most one verification
\* record, the write of APPROVED that the store executes leaves APPROVED
\* stored, and a stored APPROVED is APPROVED after every later step.
C26_ConcurrentRatchet ==
  [][ /\ \A r1, r2 \in sessions' : r1.user_id = r2.user_id => r1 = r2
      /\ (last'.op = "Answered" /\ last'.call.newStatus = sAPPROVED)
           => StoredStatus(sessions', last'.call.userID) = sAPPROVED
      /\ \A u \in Users :
           StoredStatus(sessions, u) = sAPPROVED
             => StoredStatus(sessions', u) = sAPPROVED ]_vars

\* REJECTED was executed for a user after the APPROVED it was in flight
\* with, a PENDING for the user being still in flight, and APPROVED stays
C26_Witness ==
  /\ last.op = "Answered"
  /\ last.call.newStatus = sREJECTED
  /\ last.prior = sAPPROVED
  /\ StoredStatus(sessions, last.call.userID) = sAPPROVED
  /\ \E c \in inflight : /\ c.userID = last.call.userID
                         /\ c.newStatus = sPENDING

C29_OwnKeyOnly ==
  [][ /\ \A r \in ledger : \E r2 \in ledger' :
           r2.transaction_id = r.transaction_id
      /\ \A v \in sessions : \E v2 \in sessions' : v2.user_id = v.user_id
      /\ last'.op = "UpsertOnramperTransaction"
           => /\ sessions' = sessions
              /\ \A r \in ledger \cup ledger' :
                   r.transaction_id # last'.onrampTx.transactionId
                     => r \in ledger /\ r \in ledger'
      /\ last'.op = "UpdateKYCStatus"
           => /\ ledger' = ledger
              /\ \A v \in sessions \cup sessions' :
                   v.user_id # last'.userID
                     => v \in sessions /\ v \in sessions' ]_vars

\* an upsert of TX1 changed the ledger while a record of TX42 and a
\* verification record were there
C29_Witness ==
  /\ last.op = "UpsertOnramperTransaction"
  /\ last.onrampTx.transactionId = TX1
  /\ last.changed
  /\ last.existed
  /\ \E r \in ledger : r.transaction_id = TX42
  /\ sessions # {}

\* the input, in lower case, holds one of the words
HoldsOneOf(input, words) ==
  \E w \in words : Contains(ToLower(input), w)

\* C30: mapping the result of MapTransactionStatus again gives the same
\* result, each of pending, completed, paid, failed, new maps to itself,
\* and of the cases an input matches the first one in the order pending,
\* completed, paid, failed decides.
C30_MapIdempotentFirstCaseWins ==
  last.op = "MapTransactionStatus"
    => /\ MapTransactionStatus(last.result) = last.result
       /\ \A c \in CanonicalStates : MapTransactionStatus(c) = c
       /\ HoldsOneOf(last.input, {sPending, sInProgress, sProcessing})
            => last.result = sPending
       /\ ( /\ ~HoldsOneOf(last.input, {sPending, sInProgress, sProcessing})
            /\ HoldsOneOf(last.input, {sCompleted, sConfirmed}) )
            => last.result = sCompleted
       /\ ( /\ ~HoldsOneOf(last.input, {sPending, sInProgress, sProcessing,
                                        sCompleted, sConfirmed})
            /\ ToLower(last.input) = sPaid )
            => last.result = sPaid
       /\ ( /\ ~HoldsOneOf(last.input, {sPending, sInProgress, sProcessing,
                                        sCompleted, sConfirmed})
            /\ ToLower(last.input) # sPaid
            /\ HoldsOneOf(last.input, {sFailed, sError}) )
            => last.result = sFailed

\* an input that holds failed and then pending was mapped to pending
C30_Witness ==
  /\ last.op = "MapTransactionStatus"
  /\ last.input = sFailed \o sPending
  /\ last.result = sPending

====
